---- MODULE Spec2Model ----
(***************************************************************************)
(* Model of the go-toolbox interactive session: the Bubble Tea main menu   *)
(* (cmd/tui/main), its placeholder feature screens, and the tool generator *)
(* wizard (internal/generator/generator.go) with the filesystem it writes. *)
(*                                                                         *)
(* Strings are sequences of bytes (Go strings); a rune is a code point.    *)
(***************************************************************************)
EXTENDS Integers, Sequences, FiniteSets, TLC

VARIABLES
    live,      \* the tea.Program is running (no tea.Quit processed yet)
    screen,    \* which tea.Model is the program's current model
    mcursor,   \* cursor of the main menu model
    gm,        \* the GeneratorModel (fields of the struct)
    fs,        \* the filesystem below the working directory
    race,      \* two generator processes inside generateTool (SpecRace)
    vname,     \* argument handed to isValidToolName (SpecValid)
    vresult    \* its result, "none" before the call

vars == <<live, screen, mcursor, gm, fs, race, vname, vresult>>

-----------------------------------------------------------------------------
(* Bounds of the model *)

\* longest input buffer that may be typed
MaxLen == 1
\* Write calls one template execution is split into
NChunks == 1
\* longest argument of isValidToolName drawn in SpecValid
MaxRunes == 2

-----------------------------------------------------------------------------
(* Go strings *)

\* strings.TrimSpace over the ASCII white space bytes
IsSpace(b) == b \in {9, 10, 11, 12, 13, 32}

RECURSIVE TrimLeft(_)
TrimLeft(s) ==
    IF s # <<>> /\ IsSpace(Head(s)) THEN TrimLeft(Tail(s)) ELSE s

RECURSIVE TrimRight(_)
TrimRight(s) ==
    IF s # <<>> /\ IsSpace(s[Len(s)])
    THEN TrimRight(SubSeq(s, 1, Len(s) - 1))
    ELSE s

TrimSpace(s) == TrimRight(TrimLeft(s))

\* UTF-8 decoding as Go's range loop does it, for 1- and 2-byte sequences;
\* anything else decodes to utf8.RuneError, one byte at a time
RECURSIVE Runes(_)
Runes(s) ==
    IF s = <<>> THEN <<>>
    ELSE IF s[1] < 128 THEN <<s[1]>> \o Runes(Tail(s))
    ELSE IF /\ Len(s) >= 2
            /\ s[1] >= 194 /\ s[1] <= 223
            /\ s[2] >= 128 /\ s[2] <= 191
         THEN <<(s[1] - 192) * 64 + (s[2] - 128)>> \o Runes(Tail(Tail(s)))
         ELSE <<65533>> \o Runes(Tail(s))

\* strings.ReplaceAll(s, "-", "")
RECURSIVE RemoveHyphens(_)
RemoveHyphens(s) ==
    IF s = <<>> THEN <<>>
    ELSE IF Head(s) = 45 THEN RemoveHyphens(Tail(s))
         ELSE <<Head(s)>> \o RemoveHyphens(Tail(s))

-----------------------------------------------------------------------------
(* Key messages: msg.String() is a key name, or the typed runes *)

Special(n) == [name |-> n, text |-> <<>>]
Typed(t) == [name |-> "runes", text |-> t]

\* msg.String() == s for a one-byte string s
IsChar(k, b) == k.name = "runes" /\ k.text = <<b>>
IsNamed(k, n) == k.name = n

\* len(msg.String())
KeyLen(k) ==
    IF k.name = "runes" THEN Len(k.text)
    ELSE CASE k.name = "up" -> 2
           [] k.name = "esc" -> 3
           [] k.name = "tab" -> 3
           [] k.name = "down" -> 4
           [] k.name = "enter" -> 5
           [] k.name = "ctrl+c" -> 6
           [] k.name = "backspace" -> 9

\* the keys the environment may press: the named keys, the single ASCII
\* characters ' ', 'A', 'r', the two-byte character U+00E9 and a
\* two-character paste
Keys ==
    { Special(n) : n \in {"ctrl+c", "esc", "enter", "backspace", "up", "down", "tab"} }
    \cup { Typed(<<c>>) : c \in {32, 65, 114} }
    \cup { Typed(<<195, 169>>), Typed(<<114, 114>>) }

-----------------------------------------------------------------------------
(* Tool types *)

CLI == 0
TUI == 1

ToolTypeString(t) ==
    CASE t = CLI -> "CLI"
      [] t = TUI -> "TUI"
      [] OTHER -> "Unknown"

\* strings.ToLower on the names ToolType.String() returns
ToLower(s) ==
    CASE s = "CLI" -> "cli"
      [] s = "TUI" -> "tui"
      [] s = "Unknown" -> "unknown"

-----------------------------------------------------------------------------
(* isValidToolName *)

RECURSIVE ValidFrom(_, _)
ValidFrom(rs, i) ==
    IF i > Len(rs) THEN TRUE
    ELSE LET char == rs[i] IN
         IF (char < 97 \/ char > 122) /\ (char < 48 \/ char > 57) /\ char # 45
         THEN FALSE
         ELSE ValidFrom(rs, i + 1)

\* isValidToolName with the letter range starting at 'A' instead of 'a'
MutValidNoUpperCheck(name) ==
    /\ name # <<>>
    /\ \A i \in 1..Len(Runes(name)) :
          LET char == Runes(name)[i] IN
          ~ ((char < 65 \/ char > 122) /\ (char < 48 \/ char > 57) /\ char # 45)

\* isValidToolName without its test for the empty string
MutValidNoEmptyCheck(name) == ValidFrom(Runes(name), 1)

isValidToolName(name) ==
    IF name = <<>> THEN FALSE ELSE ValidFrom(Runes(name), 1)

-----------------------------------------------------------------------------
(* The filesystem: the directories that exist and the regular files with   *)
(* their contents, a file's content being the sequence of chunks written   *)

NoData == [tmpl |-> "", ToolName |-> <<>>, ToolDesc |-> <<>>, PackageName |-> <<>>]

\* a run of zero bytes left by a write beyond the end of a file
Hole == [data |-> NoData, part |-> 0]

EmptyFS == [dirs |-> {}, files |-> [q \in {} |-> <<>>]]

Prefixes(path) == { SubSeq(path, 1, n) : n \in 1..Len(path) }

\* os.MkdirAll(path, 0750): creates the directory and its missing parents,
\* and succeeds when they exist already
FsMkdirAll(f, path) == [f EXCEPT !.dirs = @ \cup Prefixes(path)]

MutCreateExclusive(f, path) ==
    IF path \in DOMAIN f.files THEN f
    ELSE [f EXCEPT !.files =
            [q \in (DOMAIN f.files) \cup {path} |->
                IF q = path THEN <<>> ELSE f.files[q]]]

\* os.Create(path): O_RDWR|O_CREATE|O_TRUNC, an existing file is truncated
FsCreate(f, path) ==
    [f EXCEPT !.files =
        [q \in (DOMAIN f.files) \cup {path} |->
            IF q = path THEN <<>> ELSE f.files[q]]]

\* one Write of `chunk` through a descriptor whose offset is `off` chunks
WriteAt(content, off, chunk) ==
    [i \in 1..(IF Len(content) > off + 1 THEN Len(content) ELSE off + 1) |->
        IF i = off + 1 THEN chunk
        ELSE IF i <= Len(content) THEN content[i]
        ELSE Hole]

FsWrite(f, path, off, chunk) ==
    IF path \in DOMAIN f.files
    THEN [f EXCEPT !.files[path] = WriteAt(@, off, chunk)]
    ELSE f

\* the tool directories (cmd/<type>/<name>) that exist
ToolDirs(f) == { d \in f.dirs : Len(d) = 3 }

-----------------------------------------------------------------------------
(* What the environment decides about one run of generateTool: whether     *)
(* MkdirAll succeeds (a failed one is taken to have created nothing),    *)
(* whether os.Create succeeds, and how many Write calls succeed (NChunks:  *)
(* all of them)                                                            *)

IoOk == [mkdir |-> TRUE, create |-> TRUE, written |-> NChunks]

IoOutcomes ==
    { [mkdir |-> FALSE, create |-> FALSE, written |-> 0],
      [mkdir |-> TRUE, create |-> FALSE, written |-> 0] }
    \cup { [mkdir |-> TRUE, create |-> TRUE, written |-> w] : w \in 0..NChunks }

-----------------------------------------------------------------------------
(* Template rendering *)

\* the template generateMainFile selects ("" when no case matches)
TemplateOf(t) ==
    CASE t = CLI -> "cliTemplate"
      [] t = TUI -> "tuiTemplate"
      [] OTHER -> ""

\* the data the template is executed with
TemplateData(m) ==
    [tmpl |-> TemplateOf(m.toolType),
     ToolName |-> m.toolName,
     ToolDesc |-> m.toolDesc,
     PackageName |-> RemoveHyphens(m.toolName)]

\* the i-th piece t.Execute writes
Chunk(data, i) == [data |-> data, part |-> i]

\* the whole rendered file
Rendered(data) == [i \in 1..NChunks |-> Chunk(data, i)]

RECURSIVE ExecuteInto(_, _, _, _, _)
\* t.Execute(file, data): the Write calls `from`+1 .. `upto` in order
ExecuteInto(f, path, data, from, upto) ==
    IF from >= upto THEN f
    ELSE ExecuteInto(FsWrite(f, path, from, Chunk(data, from + 1)),
                     path, data, from + 1, upto)

-----------------------------------------------------------------------------
(* generateTool and the files it writes *)

\* the tool directory with a fixed directory in place of the tool type's
MutToolDirIgnoresType(m) == <<"cmd", "tools", m.toolName>>

\* filepath.Join("cmd", strings.ToLower(m.toolType.String()), m.toolName)
ToolDir(m) == <<"cmd", ToLower(ToolTypeString(m.toolType)), m.toolName>>

\* filepath.Join(toolDir, "main.go")
MainFile(toolDir) == toolDir \o <<"main.go">>

\* generateMainFile(toolDir): [err, fs]
generateMainFile(m, f, toolDir, io) ==
    IF ~ io.create
    THEN [err |-> "open: permission denied", fs |-> f]
    ELSE LET created == FsCreate(f, MainFile(toolDir))
             written == ExecuteInto(created, MainFile(toolDir),
                                    TemplateData(m), 0, io.written)
         IN  IF io.written < NChunks
             THEN [err |-> "write: input/output error", fs |-> written]
             ELSE [err |-> "", fs |-> written]

\* generateTool without the validation of the tool name
MutGenerateToolNoValidate(m, f, io) ==
    IF ~ io.mkdir
    THEN [err |-> "failed to create directory: mkdir: permission denied", fs |-> f]
    ELSE LET r == generateMainFile(m, FsMkdirAll(f, ToolDir(m)), ToolDir(m), io)
         IN  IF r.err # ""
             THEN [err |-> "failed to generate main.go: " \o r.err, fs |-> r.fs]
             ELSE [err |-> "", fs |-> r.fs]

\* generateTUIFiles and updateMakefile do nothing and return nil
generateTool(m, f, io) ==
    IF ~ isValidToolName(m.toolName)
    THEN [err |-> "invalid tool name: use lowercase letters, numbers, and hyphens only",
          fs |-> f]
    ELSE IF ~ io.mkdir
    THEN [err |-> "failed to create directory: mkdir: permission denied",
          fs |-> f]
    ELSE LET r == generateMainFile(m, FsMkdirAll(f, ToolDir(m)), ToolDir(m), io)
         IN  IF r.err # ""
             THEN [err |-> "failed to generate main.go: " \o r.err, fs |-> r.fs]
             ELSE [err |-> "", fs |-> r.fs]

-----------------------------------------------------------------------------
(* Cursor movement, the same in the main menu and in the wizard *)

\* if m.cursor > 0 { m.cursor-- }
cursorUp(c) == IF c > 0 THEN c - 1 ELSE c

\* "down" moving past the last choice to the first one
MutCursorDownWraps(c, n) == (c + 1) % n

\* if m.cursor < len(m.choices)-1 { m.cursor++ }
cursorDown(c, n) == IF c < n - 1 THEN c + 1 ELSE c

-----------------------------------------------------------------------------
(* GeneratorModel *)

Choices == <<"CLI Tool", "TUI Tool", "Back to Main Menu">>

NewGeneratorModel ==
    [step |-> 0, toolType |-> CLI, toolName |-> <<>>, toolDesc |-> <<>>,
     cursor |-> 0, quitting |-> FALSE, error |-> "", success |-> <<>>,
     inputMode |-> FALSE, inputText |-> <<>>, inputPrompt |-> ""]

\* fmt.Sprintf("Successfully generated %s tool: %s", type, name)
SuccessMessage(m) ==
    <<"Successfully generated ", ToolTypeString(m.toolType), " tool: ", m.toolName>>

\* the end of case 2 with the error of generateTool ignored
MutFinishedIgnoresError(m, err) ==
    [m EXCEPT !.success = SuccessMessage(m), !.step = m.step + 1]

\* the wizard state once generateTool has returned err
Finished(m, err) ==
    LET m2 == IF err # ""
              THEN [m EXCEPT !.error = "Error generating tool: " \o err]
              ELSE [m EXCEPT !.success = SuccessMessage(m)]
    IN  [m2 EXCEPT !.step = m2.step + 1]

\* the "enter" case with DescriptionInput generating but keeping its step
MutConfirmStaysInDescription(m, f, input, io) ==
    IF m.step = 2
    THEN [m |-> [m EXCEPT !.toolDesc = input, !.error = ""],
          cmd |-> "nil",
          fs |-> generateTool([m EXCEPT !.toolDesc = input], f, io).fs]
    ELSE [m |-> [m EXCEPT !.toolName = input, !.step = 2, !.inputMode = TRUE,
                          !.inputText = <<>>,
                          !.inputPrompt = "Enter tool description:",
                          !.error = ""],
          cmd |-> "nil", fs |-> f]

\* the "enter" case of handleInputMode once the trimmed input is not empty
ConfirmInput(m, f, input, io) ==
    CASE m.step = 1 ->
           [m |-> [m EXCEPT !.toolName = input, !.step = 2, !.inputMode = TRUE,
                            !.inputText = <<>>,
                            !.inputPrompt = "Enter tool description:",
                            !.error = ""],
            cmd |-> "nil", fs |-> f]
      [] m.step = 2 ->
           LET m1 == [m EXCEPT !.toolDesc = input, !.inputMode = FALSE, !.error = ""]
               g  == generateTool(m1, f, io)
           IN  [m |-> Finished(m1, g.err), cmd |-> "nil", fs |-> g.fs]
      [] OTHER -> [m |-> m, cmd |-> "nil", fs |-> f]

\* the "ctrl+c" case with the key ignored
MutQuitIgnored(m) == [m |-> m, cmd |-> "nil"]

\* the "ctrl+c" case of handleInputMode and of handleMenuMode
wizardQuit(m) == [m |-> [m EXCEPT !.quitting = TRUE], cmd |-> "quit"]

\* the "esc" case of handleInputMode without the Reset of the buffer
MutCancelKeepsBuffer(m) ==
    [m EXCEPT !.inputMode = FALSE, !.step = m.step - 1]

\* the "esc" case of handleInputMode leaving for step 0 from every step
MutCancelToTypeSelect(m) ==
    [m EXCEPT !.inputMode = FALSE, !.inputText = <<>>, !.step = 0]

\* the "esc" case of handleInputMode
inputCancel(m) ==
    [m EXCEPT !.inputMode = FALSE, !.inputText = <<>>, !.step = m.step - 1]

\* handleInputMode(msg): the model, the command returned and the filesystem
handleInputMode(m, f, k, io) ==
    CASE IsNamed(k, "ctrl+c") ->
           [m |-> wizardQuit(m).m, cmd |-> wizardQuit(m).cmd, fs |-> f]
      [] IsNamed(k, "esc") ->
           [m |-> inputCancel(m), cmd |-> "nil", fs |-> f]
      [] IsNamed(k, "enter") ->
           LET input == TrimSpace(m.inputText) IN
           IF input = <<>>
           THEN [m |-> [m EXCEPT !.error = "Input cannot be empty"],
                 cmd |-> "nil", fs |-> f]
           ELSE ConfirmInput(m, f, input, io)
      [] IsNamed(k, "backspace") ->
           IF Len(m.inputText) > 0
           THEN [m |-> [m EXCEPT !.inputText = SubSeq(@, 1, Len(@) - 1)],
                 cmd |-> "nil", fs |-> f]
           ELSE [m |-> m, cmd |-> "nil", fs |-> f]
      [] OTHER ->
           IF KeyLen(k) = 1
           THEN [m |-> [m EXCEPT !.inputText = @ \o k.text], cmd |-> "nil", fs |-> f]
           ELSE [m |-> m, cmd |-> "nil", fs |-> f]

\* handleSelection()
handleSelection(m) ==
    IF m.step = 0
    THEN IF m.cursor = 2
         THEN [m |-> m, cmd |-> "quit"]
         ELSE LET typed == CASE m.cursor = 0 -> [m EXCEPT !.toolType = CLI]
                             [] m.cursor = 1 -> [m EXCEPT !.toolType = TUI]
                             [] OTHER -> m
              IN  [m |-> [typed EXCEPT !.step = typed.step + 1, !.inputMode = TRUE,
                                       !.inputPrompt = "Enter tool name (lowercase, no spaces):",
                                       !.error = ""],
                   cmd |-> "nil"]
    ELSE [m |-> m, cmd |-> "nil"]

\* the "esc"/"b" case with every step leaving the program, as step 0 does
MutBackAlwaysQuits(m) == [m |-> m, cmd |-> "quit"]

\* the "esc", "b" case of handleMenuMode
menuBack(m) ==
    IF m.step = 0
    THEN [m |-> m, cmd |-> "quit"]
    ELSE [m |-> [m EXCEPT !.step = 0, !.cursor = 0, !.error = "",
                          !.success = <<>>, !.inputMode = FALSE,
                          !.inputText = <<>>],
          cmd |-> "nil"]

\* the "r" case without the reset of the collected name
MutRetryKeepsName(m) ==
    [m |-> IF m.step = 3
           THEN [m EXCEPT !.step = 0, !.cursor = 0, !.error = "",
                          !.success = <<>>, !.toolDesc = <<>>]
           ELSE m,
     cmd |-> "nil"]

\* the "r" case of handleMenuMode
menuRetry(m) ==
    [m |-> IF m.step = 3
           THEN [m EXCEPT !.step = 0, !.cursor = 0, !.error = "",
                          !.success = <<>>, !.toolName = <<>>,
                          !.toolDesc = <<>>]
           ELSE m,
     cmd |-> "nil"]

\* handleMenuMode(msg)
handleMenuMode(m, k) ==
    CASE IsNamed(k, "ctrl+c") -> wizardQuit(m)
      [] IsNamed(k, "up") \/ IsChar(k, 107) ->
           [m |-> [m EXCEPT !.cursor = cursorUp(@)], cmd |-> "nil"]
      [] IsNamed(k, "down") \/ IsChar(k, 106) ->
           [m |-> [m EXCEPT !.cursor = cursorDown(@, Len(Choices))], cmd |-> "nil"]
      [] IsNamed(k, "enter") \/ IsChar(k, 32) -> handleSelection(m)
      [] IsNamed(k, "esc") \/ IsChar(k, 98) -> menuBack(m)
      [] IsChar(k, 114) -> menuRetry(m)
      [] OTHER -> [m |-> m, cmd |-> "nil"]

\* GeneratorModel.Update(msg) for a key message
Update(m, f, k, io) ==
    IF m.inputMode
    THEN handleInputMode(m, f, k, io)
    ELSE LET r == handleMenuMode(m, k) IN [m |-> r.m, cmd |-> r.cmd, fs |-> f]

-----------------------------------------------------------------------------
(* GeneratorModel.View(): the rendered screen as the sequence of its       *)
(* pieces of text, a piece being the sequence of the strings joined in it  *)

\* the lines of the choices, the cursor marked by ">"
ChoiceLines(m) ==
    [i \in 1..Len(Choices) |->
        <<IF m.cursor = i - 1 THEN ">" ELSE " ", " ", Choices[i]>>]

RetryBackQuitHelp ==
    <<"Press 'r' to create another tool, 'b' to go back, or 'q' to quit">>

\* the "Files created:" items of the Completion screen
FilesCreatedLines(m) ==
    << <<"  * ", "cmd/", ToLower(ToolTypeString(m.toolType)), "/", m.toolName, "/main.go">>,
       <<"  * ", "README.md (updated)">>,
       <<"  * ", "Makefile (updated)">> >>

View(m) ==
    IF m.quitting THEN << <<"Tool Generator">>, <<"Exiting...">> >>
    ELSE
      << <<"Go Tool Generator">> >>
      \o (CASE m.step = 0 ->
                  << <<"Select the type of tool to generate:">> >>
                  \o ChoiceLines(m)
                  \o << <<"Use up/down or j/k to navigate, Enter to select, Esc to go back">> >>
             [] m.step \in {1, 2} ->
                  << <<"Creating ", ToolTypeString(m.toolType), " Tool">>,
                     <<m.inputPrompt>>,
                     <<m.inputText, "|">>,
                     IF m.step = 1
                     THEN <<"Examples: filehasher, networkping, jsonformatter">>
                     ELSE <<"Examples: A CLI tool for calculating file hashes">>,
                     <<"Press Enter to continue, Esc to go back">> >>
             [] m.step = 3 ->
                  << <<"Tool Generation Complete!">> >>
                  \o (IF m.success # <<>>
                      THEN << <<"ok ", m.success>>,
                              <<"Tool: ", m.toolName>>,
                              <<"Type: ", ToolTypeString(m.toolType)>>,
                              <<"Description: ", m.toolDesc>>,
                              <<"Files created:">> >>
                           \o FilesCreatedLines(m)
                           \o <<RetryBackQuitHelp>>
                      ELSE <<>>)
             [] OTHER -> <<>>)
      \o (IF m.error # "" THEN << <<"error ", m.error>> >> ELSE <<>>)

\* the piece p is on the screen
Shows(m, p) == \E i \in 1..Len(View(m)) : View(m)[i] = p

-----------------------------------------------------------------------------
(* The main menu model and the feature screens of cmd/tui/main *)

MenuChoices ==
    <<"File Operations", "Network Tools", "System Information", "String Utilities",
      "Random Generators", "Configuration", "Tool Generator", "Exit">>

\* the tea.Model handleMenuSelection returns for each cursor position
ScreenOf(c) ==
    CASE c = 0 -> "fileOps"
      [] c = 1 -> "networkTools"
      [] c = 2 -> "systemInfo"
      [] c = 3 -> "stringUtils"
      [] c = 4 -> "randomGen"
      [] c = 5 -> "config"
      [] c = 6 -> "generator"
      [] OTHER -> "menu"

FeatureScreens ==
    {"fileOps", "networkTools", "systemInfo", "stringUtils", "randomGen", "config"}

\* values of the variables that belong to the other specifications
RaceIdle == <<>>

Init ==
    /\ live = TRUE
    /\ screen = "menu"
    /\ mcursor = 0
    /\ gm = NewGeneratorModel
    /\ fs = EmptyFS
    /\ race = RaceIdle
    /\ vname = <<>>
    /\ vresult = "none"

\* handleMenuSelection(): the model that replaces the main menu (a feature
\* screen or a new GeneratorModel; the menu itself, unchanged, by default)
handleMenuSelection(c) ==
    [screen |-> ScreenOf(c),
     cursor |-> IF ScreenOf(c) = "menu" THEN c ELSE 0,
     cmd |-> "nil"]

\* model.Update(msg) of the main menu: the program's next model, the main
\* menu's cursor and the command returned
menuUpdate(c, k) ==
    CASE IsNamed(k, "ctrl+c") \/ IsChar(k, 113) ->
           [screen |-> "menu", cursor |-> c, cmd |-> "quit"]
      [] IsNamed(k, "up") \/ IsChar(k, 107) ->
           [screen |-> "menu", cursor |-> cursorUp(c), cmd |-> "nil"]
      [] IsNamed(k, "down") \/ IsChar(k, 106) ->
           [screen |-> "menu", cursor |-> cursorDown(c, Len(MenuChoices)), cmd |-> "nil"]
      [] IsNamed(k, "enter") \/ IsChar(k, 32) ->
           IF c = Len(MenuChoices) - 1
           THEN [screen |-> "menu", cursor |-> c, cmd |-> "quit"]
           ELSE handleMenuSelection(c)
      [] OTHER -> [screen |-> "menu", cursor |-> c, cmd |-> "nil"]

\* Update(msg) of fileOpsModel, networkToolsModel, systemInfoModel,
\* stringUtilsModel, randomGenModel and configModel; "esc" and "b" return
\* initialModel(), a new main menu
featureUpdate(s, c, k) ==
    CASE IsNamed(k, "ctrl+c") \/ IsChar(k, 113) ->
           [screen |-> s, cursor |-> c, cmd |-> "quit"]
      [] IsNamed(k, "esc") \/ IsChar(k, 98) ->
           [screen |-> "menu", cursor |-> 0, cmd |-> "nil"]
      [] OTHER -> [screen |-> s, cursor |-> c, cmd |-> "nil"]

\* one key message delivered to the main menu
MenuKey ==
    /\ live
    /\ screen = "menu"
    /\ \E k \in Keys : \E r \in {menuUpdate(mcursor, k)} :
         /\ screen' = r.screen
         /\ mcursor' = r.cursor
         /\ live' = (r.cmd # "quit")
         /\ gm' = IF r.screen = "generator" THEN NewGeneratorModel ELSE gm
    /\ UNCHANGED <<fs, race, vname, vresult>>

\* one key message delivered to a feature screen
FeatureKey ==
    /\ live
    /\ screen \in FeatureScreens
    /\ \E k \in Keys : \E r \in {featureUpdate(screen, mcursor, k)} :
         /\ screen' = r.screen
         /\ mcursor' = r.cursor
         /\ live' = (r.cmd # "quit")
    /\ UNCHANGED <<gm, fs, race, vname, vresult>>

\* the model follows one tool directory: no other one exists beside m's
OneToolDir(m, f) == ToolDirs(f) \subseteq {ToolDir(m)}

\* the keys offered to the wizard within the bounds of the model: typing
\* stops at MaxLen bytes, and generateTool runs while the filesystem holds
\* no tool directory but its own
WithinBounds(m, f, k) ==
    /\ (m.inputMode /\ k.name = "runes" /\ KeyLen(k) = 1)
          => Len(m.inputText) < MaxLen
    /\ (m.inputMode /\ m.step = 2 /\ IsNamed(k, "enter") /\ isValidToolName(m.toolName))
          => OneToolDir(m, f)

\* the outcomes the environment may choose for a key: several only for the
\* key that runs generateTool
IoChoices(m, k) ==
    IF m.inputMode /\ m.step = 2 /\ IsNamed(k, "enter") THEN IoOutcomes ELSE {IoOk}

\* one key message delivered to the GeneratorModel; a tea.Quit command ends
\* the program
WizardKey ==
    /\ live
    /\ screen = "generator"
    /\ \E k \in Keys : \E io \in IoChoices(gm, k) :
         /\ WithinBounds(gm, fs, k)
         /\ \E r \in {Update(gm, fs, k, io)} :
              /\ gm' = r.m
              /\ fs' = r.fs
              /\ live' = (r.cmd # "quit")
    /\ UNCHANGED <<screen, mcursor, race, vname, vresult>>

Next == MenuKey \/ FeatureKey \/ WizardKey

Spec == Init /\ [][Next]_vars

-----------------------------------------------------------------------------
(* isValidToolName applied to arbitrary strings *)

\* the characters the arguments are built from: 'a' 'z' '0' '9' '-', the
\* neighbours of those ranges '`' '{' '/' ':' ',' '.', and 'A' 'Z' ' ' '_' '!'
\* and the two-byte U+00E9
ArgChars ==
    { <<c>> : c \in {97, 122, 48, 57, 45, 96, 123, 47, 58, 44, 46, 65, 90, 32, 95, 33} }
    \cup { <<195, 169>> }

RECURSIVE ArgStrings(_)
ArgStrings(n) ==
    IF n = 0 THEN { <<>> }
    ELSE LET shorter == ArgStrings(n - 1) IN
         shorter \cup { s \o c : s \in shorter, c \in ArgChars }

\* "file-hasher", "sys99", "My Tool!"
FileHasher == <<102, 105, 108, 101, 45, 104, 97, 115, 104, 101, 114>>
Sys99 == <<115, 121, 115, 57, 57>>
MyTool == <<77, 121, 32, 84, 111, 111, 108, 33>>

InitValid ==
    /\ live = FALSE
    /\ screen = "menu"
    /\ mcursor = 0
    /\ gm = NewGeneratorModel
    /\ fs = EmptyFS
    /\ race = RaceIdle
    /\ vname \in ArgStrings(MaxRunes) \cup {FileHasher, Sys99, MyTool}
    /\ vresult = "none"

CallIsValidToolName ==
    /\ vresult = "none"
    /\ vresult' = IF isValidToolName(vname) THEN "true" ELSE "false"
    /\ UNCHANGED <<live, screen, mcursor, gm, fs, race, vname>>

NextValid == CallIsValidToolName

SpecValid == InitValid /\ [][NextValid]_vars

-----------------------------------------------------------------------------
(* Two generator processes in the same working directory, each inside the  *)
(* generateTool call of its description confirm; every system call is one  *)
(* step, and no call fails for a reason of the environment                 *)

Procs == {1, 2}

\* the model handed to generateTool by the "enter" case of step 2
ModelAtGenerate(t, n, d) ==
    [NewGeneratorModel EXCEPT !.step = 2, !.toolType = t, !.toolName = n,
                              !.toolDesc = d, !.inputText = d,
                              !.inputPrompt = "Enter tool description:"]

RaceNames == { <<114>>, <<65>> }
RaceDescs == { <<114>>, <<65>> }

InitRace ==
    /\ live = TRUE
    /\ screen = "generator"
    /\ mcursor = 0
    /\ gm = NewGeneratorModel
    /\ fs = EmptyFS
    /\ race \in [Procs -> { [pc |-> "validate", m |-> ModelAtGenerate(t, n, d), off |-> 0] :
                              t \in {CLI, TUI}, n \in RaceNames, d \in RaceDescs }]
    /\ vname = <<>>
    /\ vresult = "none"

RaceValidate(p) ==
    /\ race[p].pc = "validate"
    /\ race' = IF isValidToolName(race[p].m.toolName)
               THEN [race EXCEPT ![p].pc = "mkdir"]
               ELSE [race EXCEPT ![p].pc = "done",
                                 ![p].m = Finished(@, "invalid tool name: use lowercase letters, numbers, and hyphens only")]
    /\ UNCHANGED <<live, screen, mcursor, gm, fs, vname, vresult>>

RaceMkdirAll(p) ==
    /\ race[p].pc = "mkdir"
    /\ fs' = FsMkdirAll(fs, ToolDir(race[p].m))
    /\ race' = [race EXCEPT ![p].pc = "create"]
    /\ UNCHANGED <<live, screen, mcursor, gm, vname, vresult>>

RaceCreate(p) ==
    /\ race[p].pc = "create"
    /\ fs' = FsCreate(fs, MainFile(ToolDir(race[p].m)))
    /\ race' = [race EXCEPT ![p].pc = "write", ![p].off = 0]
    /\ UNCHANGED <<live, screen, mcursor, gm, vname, vresult>>

RaceWrite(p) ==
    /\ race[p].pc = "write"
    /\ race[p].off < NChunks
    /\ fs' = FsWrite(fs, MainFile(ToolDir(race[p].m)), race[p].off,
                     Chunk(TemplateData(race[p].m), race[p].off + 1))
    /\ race' = [race EXCEPT ![p].off = @ + 1]
    /\ UNCHANGED <<live, screen, mcursor, gm, vname, vresult>>

RaceReturn(p) ==
    /\ race[p].pc = "write"
    /\ race[p].off = NChunks
    /\ race' = [race EXCEPT ![p].pc = "done", ![p].m = Finished(@, "")]
    /\ UNCHANGED <<live, screen, mcursor, gm, fs, vname, vresult>>

NextRace ==
    \E p \in Procs :
        \/ RaceValidate(p)
        \/ RaceMkdirAll(p)
        \/ RaceCreate(p)
        \/ RaceWrite(p)
        \/ RaceReturn(p)

SpecRace == InitRace /\ [][NextRace]_vars

-----------------------------------------------------------------------------
(* Vocabulary of the properties *)

\* s matches ^[a-z0-9-]+$
MatchesSlug(s) ==
    /\ Len(s) > 0
    /\ \A i \in 1..Len(s) : s[i] \in (97..122) \cup (48..57) \cup {45}

\* this step is the wizard processing key k under the outcome io
PressedWith(k, io) ==
    /\ live
    /\ screen = "generator"
    /\ \E r \in {Update(gm, fs, k, io)} :
         /\ gm' = r.m
         /\ fs' = r.fs
         /\ live' = (r.cmd # "quit")
    /\ UNCHANGED <<screen, mcursor>>

\* this step is the wizard processing key k
Pressed(k) == \E io \in IoChoices(gm, k) : PressedWith(k, io)

\* this step is the main menu processing key k
MenuPressed(k) ==
    /\ live
    /\ screen = "menu"
    /\ \E r \in {menuUpdate(mcursor, k)} :
         /\ screen' = r.screen
         /\ mcursor' = r.cursor
         /\ live' = (r.cmd # "quit")

\* this step is a feature screen processing key k
FeaturePressed(k) ==
    /\ live
    /\ screen \in FeatureScreens
    /\ \E r \in {featureUpdate(screen, mcursor, k)} :
         /\ screen' = r.screen
         /\ mcursor' = r.cursor
         /\ live' = (r.cmd # "quit")

Enter == Special("enter")
Esc == Special("esc")
RetryKey == Typed(<<114>>)
CtrlC == Special("ctrl+c")
UpKey == Special("up")
DownKey == Special("down")
SpaceKey == Typed(<<32>>)
Backspace == Special("backspace")

InvalidNameError ==
    "Error generating tool: invalid tool name: use lowercase letters, numbers, and hyphens only"

\* the wizard is the active screen, in step n
InStep(n) == screen = "generator" /\ gm.step = n

-----------------------------------------------------------------------------
(* C1: generating a tool whose main source file exists already fails with  *)
(* a collision error and leaves the filesystem exactly as it was; no       *)
(* existing file is ever overwritten.  (Stated for a second attempt on    *)
(* which the environment fails no system call.)                            *)
\* the main file of m's tool holds a complete rendering
GeneratedBefore(m, f) ==
    /\ MainFile(ToolDir(m)) \in DOMAIN f.files
    /\ Len(f.files[MainFile(ToolDir(m))]) = NChunks
    /\ f.files[MainFile(ToolDir(m))] = Rendered(f.files[MainFile(ToolDir(m))][1].data)

C1_SecondAttemptCollides ==
    [][ (/\ InStep(2) /\ gm.inputMode
         /\ gm'.step = 3
         /\ GeneratedBefore(gm, fs)
         /\ PressedWith(Enter, IoOk))
        => (/\ gm'.error # ""
            /\ gm'.success = <<>>
            /\ fs' = fs) ]_vars

-----------------------------------------------------------------------------
(* C2: when two sessions generate the same tool type and name at the same  *)
(* time, exactly one of them succeeds and the other ends in the Error      *)
(* state, and the file holds the content of the one that succeeded.        *)
SameTarget ==
    /\ race[1].m.toolType = race[2].m.toolType
    /\ race[1].m.toolName = race[2].m.toolName
    /\ MatchesSlug(race[1].m.toolName)

C2_ExactlyOneWins ==
    (race[1].pc = "done" /\ race[2].pc = "done" /\ SameTarget)
    => \E p \in Procs :
         LET q == 3 - p IN
         /\ race[p].m.step = 3 /\ race[p].m.success # <<>> /\ race[p].m.error = ""
         /\ race[q].m.step = 3 /\ race[q].m.success = <<>> /\ race[q].m.error # ""
         /\ fs.files[MainFile(ToolDir(race[p].m))] = Rendered(TemplateData(race[p].m))

-----------------------------------------------------------------------------
(* C3: confirming NameInput with a trimmed buffer that does not match the  *)
(* slug pattern gives a validation error, keeps the wizard on NameInput    *)
(* and writes nothing.                                                     *)
BadNameTyped ==
    /\ InStep(1) /\ gm.inputMode
    /\ TrimSpace(gm.inputText) # <<>>
    /\ ~ MatchesSlug(TrimSpace(gm.inputText))

-----------------------------------------------------------------------------
(* C4: whenever the wizard is in Completion with a success message, the    *)
(* collected tool name is a non-empty string of a-z, 0-9 and hyphens.      *)
C4_SuccessHasSlugName ==
    (InStep(3) /\ gm.success # <<>>) => MatchesSlug(gm.toolName)

C4_Witness == InStep(3) /\ gm.success # <<>>

-----------------------------------------------------------------------------
(* C5: isValidToolName(name) is true exactly when name matches             *)
(* ^[a-z0-9-]+$: the empty string and every name with an uppercase letter, *)
(* a space or an underscore are rejected, "file-hasher" and "sys99" are    *)
(* accepted.                                                               *)
HasByte(s, set) == \E i \in 1..Len(s) : s[i] \in set

C5_ValidIffSlug ==
    vresult # "none"
    => /\ (vresult = "true") <=> MatchesSlug(vname)
       /\ vname = <<>> => vresult = "false"
       /\ HasByte(vname, (65..90) \cup {32, 95}) => vresult = "false"
       /\ vname \in {FileHasher, Sys99} => vresult = "true"

C5_Witness == vname = FileHasher /\ vresult = "true"

-----------------------------------------------------------------------------
(* C6: for each of the tool types CLI, TUI and Web, every slug name and    *)
(* every non-empty description, the wizard run to its end on a filesystem  *)
(* without a colliding file ends in Completion with a success message      *)
(* naming the tool and creates exactly the artifacts of the type under     *)
(* cmd/<lowercased type>/<name>: main.go, and for Web also                 *)
(* templates/index.html and the directory static.                          *)
\* the tool types the first three choices stand for
ClaimedTypes == <<"CLI", "TUI", "Web">>

\* the destination directory of each of them
ClaimedDir(m) ==
    <<"cmd",
      CASE ToolTypeString(m.toolType) = "CLI" -> "cli"
        [] ToolTypeString(m.toolType) = "TUI" -> "tui"
        [] ToolTypeString(m.toolType) = "Web" -> "web",
      m.toolName>>

\* the files and directories a generation of m's tool is to add
ArtifactFiles(m) ==
    IF ToolTypeString(m.toolType) = "Web"
    THEN {ClaimedDir(m) \o <<"main.go">>, ClaimedDir(m) \o <<"templates", "index.html">>}
    ELSE {ClaimedDir(m) \o <<"main.go">>}

ArtifactDirs(m) ==
    {<<"cmd">>, SubSeq(ClaimedDir(m), 1, 2), ClaimedDir(m)}
    \cup (IF ToolTypeString(m.toolType) = "Web"
          THEN {ClaimedDir(m) \o <<"templates">>, ClaimedDir(m) \o <<"static">>}
          ELSE {})

C6_EveryTypeGenerates ==
    [][ /\ (/\ InStep(0) /\ ~ gm.inputMode
            /\ gm.cursor \in 0..2
            /\ Pressed(Enter))
           => (/\ gm'.step = 1
               /\ ToolTypeString(gm'.toolType) = ClaimedTypes[gm.cursor + 1])
        /\ (/\ InStep(2) /\ gm.inputMode
            /\ MatchesSlug(gm.toolName)
            /\ TrimSpace(gm.inputText) # <<>>
            /\ ArtifactFiles(gm) \cap DOMAIN fs.files = {}
            /\ PressedWith(Enter, IoOk))
           => (/\ gm'.step = 3
               /\ gm'.error = ""
               /\ gm'.success = SuccessMessage(gm)
               /\ DOMAIN fs'.files = (DOMAIN fs.files) \cup ArtifactFiles(gm)
               /\ fs'.dirs = fs.dirs \cup ArtifactDirs(gm)) ]_vars

-----------------------------------------------------------------------------
(* C7: in ToolTypeSelect, confirming "Back to Main Menu" or pressing the   *)
(* back key pops the wizard: the main menu becomes the active screen, the  *)
(* session stays live and the wizard state is discarded.                   *)
C7_BackPopsToMainMenu ==
    [][ (/\ InStep(0) /\ ~ gm.inputMode
         /\ \/ Pressed(Esc)
            \/ (gm.cursor = Len(Choices) - 1 /\ Pressed(Enter)))
        => (/\ live'
            /\ screen' = "menu"
            /\ gm' = NewGeneratorModel) ]_vars

-----------------------------------------------------------------------------
(* C8: in Completion and in Error the back key exits the wizard: the main  *)
(* menu becomes the active screen.                                         *)
C8_BackExitsWizard ==
    [][ (InStep(3) /\ ~ gm.inputMode /\ Pressed(Esc))
        => screen' = "menu" ]_vars

(* C8 as amended: in Completion and in Error the back key does not leave   *)
(* the wizard: the wizard stays the active screen of a live session and    *)
(* returns to ToolTypeSelect with cursor 0, no error or success message,   *)
(* text entry off and an empty buffer, keeping the collected tool type,    *)
(* name and description.                                                   *)
C8_BackReturnsToTypeSelect ==
    [][ (InStep(3) /\ ~ gm.inputMode /\ Pressed(Esc))
        => (/\ live'
            /\ screen' = "generator"
            /\ gm'.step = 0 /\ gm'.cursor = 0
            /\ gm'.error = "" /\ gm'.success = <<>>
            /\ ~ gm'.inputMode /\ gm'.inputText = <<>>
            /\ gm'.toolType = gm.toolType
            /\ gm'.toolName = gm.toolName
            /\ gm'.toolDesc = gm.toolDesc) ]_vars

\* back has been pressed in step 3: only then does ToolTypeSelect hold a
\* collected description
C8_Witness ==
    live /\ InStep(0) /\ gm.toolDesc # <<>>

-----------------------------------------------------------------------------
(* C9: in Completion and in Error the retry key resets the wizard to       *)
(* ToolTypeSelect with tool type, name and description back to their       *)
(* initial values, cursor 0 and no error or success message.               *)
C9_RetryClearsToolSpec ==
    [][ (InStep(3) /\ ~ gm.inputMode /\ Pressed(RetryKey))
        => (/\ gm'.step = 0 /\ gm'.cursor = 0
            /\ gm'.error = "" /\ gm'.success = <<>>
            /\ gm'.toolType = NewGeneratorModel.toolType
            /\ gm'.toolName = <<>>
            /\ gm'.toolDesc = <<>>) ]_vars

(* C9 as amended: the retry key resets the wizard to ToolTypeSelect with   *)
(* name and description cleared, cursor 0 and no error or success message; *)
(* the tool type keeps the value of the pass that ended (the next          *)
(* selection overwrites it).                                               *)
C9_RetryClearsNameAndDesc ==
    [][ (InStep(3) /\ ~ gm.inputMode /\ Pressed(RetryKey))
        => (/\ gm'.step = 0 /\ gm'.cursor = 0
            /\ gm'.error = "" /\ gm'.success = <<>>
            /\ gm'.toolType = gm.toolType
            /\ gm'.toolName = <<>>
            /\ gm'.toolDesc = <<>>) ]_vars

\* retry has been pressed after a TUI pass: only retry leaves the typed
\* description in the buffer of ToolTypeSelect
C9_Witness ==
    /\ InStep(0)
    /\ gm.toolType = TUI
    /\ gm.toolName = <<>> /\ gm.toolDesc = <<>>
    /\ gm.inputText # <<>>

-----------------------------------------------------------------------------
(* C10: cancel in DescriptionInput returns to NameInput in its text-entry  *)
(* form: the characters typed next go to the name buffer, and a confirm    *)
(* with a non-empty buffer advances to DescriptionInput again.             *)
C10_CancelReentersNameInput ==
    [][ /\ (InStep(2) /\ gm.inputMode /\ Pressed(Esc))
           => (gm'.step = 1 /\ gm'.inputMode /\ gm'.inputText = <<>>)
        /\ \A c \in {<<65>>, <<114>>} :
             (InStep(1) /\ Len(gm.inputText) < MaxLen /\ Pressed(Typed(c)))
             => gm'.inputText = gm.inputText \o c
        /\ (InStep(1) /\ TrimSpace(gm.inputText) # <<>> /\ Pressed(Enter))
           => gm'.step = 2 ]_vars

-----------------------------------------------------------------------------
(* C11: cancelling NameInput returns to ToolTypeSelect with text entry off *)
(* and the buffer emptied, whatever had been typed; the buffer then stays  *)
(* empty for as long as the wizard is in ToolTypeSelect, so that the       *)
(* confirm of a tool type re-enters NameInput, in text entry, with an      *)
(* empty buffer.                                                           *)
C11_CancelThenReenterEmpty ==
    [][ /\ (InStep(1) /\ gm.inputMode /\ Pressed(Esc))
           => (/\ gm'.step = 0
               /\ ~ gm'.inputMode
               /\ gm'.inputText = <<>>
               /\ gm'.toolName = gm.toolName)
        /\ (InStep(0) /\ gm.inputText = <<>> /\ screen' = "generator")
           => (/\ gm'.inputText = <<>>
               /\ gm'.step \in {0, 1}
               /\ gm'.step = 1 => gm'.inputMode)
        /\ (InStep(0) /\ gm.inputText = <<>> /\ gm.cursor < 2 /\ Pressed(Enter))
           => gm'.step = 1 ]_vars

\* NameInput has been cancelled: only its cancel carries the message of an
\* empty confirm into ToolTypeSelect
C11_Witness ==
    /\ InStep(0)
    /\ gm.error = "Input cannot be empty"
    /\ gm.inputText = <<>>

-----------------------------------------------------------------------------
(* C12: in every state of DescriptionInput with a non-empty trimmed        *)
(* buffer, the confirm answers every failure of the generation (a name     *)
(* that is not a slug, or a failed directory creation, file creation or    *)
(* template execution) by step 3 with an error message and no success      *)
(* message, returns no command, so that the session stays live, and keeps  *)
(* the tool type, the name and the trimmed description.                    *)
C12_FailureKeepsToolSpec ==
    (/\ live /\ InStep(2) /\ gm.inputMode
     /\ TrimSpace(gm.inputText) # <<>>)
    => \A io \in IoOutcomes :
          (~ MatchesSlug(gm.toolName) \/ io # IoOk)
          => LET r == Update(gm, fs, Enter, io) IN
             /\ r.cmd = "nil"
             /\ r.m.step = 3
             /\ r.m.error # ""
             /\ r.m.success = <<>>
             /\ r.m.toolType = gm.toolType
             /\ r.m.toolName = gm.toolName
             /\ r.m.toolDesc = TrimSpace(gm.inputText)

\* a generation with a valid name has failed in the filesystem
C12_Witness ==
    /\ live /\ InStep(3)
    /\ MatchesSlug(gm.toolName)
    /\ gm.toolDesc # <<>>
    /\ gm.error # ""

-----------------------------------------------------------------------------
(* C13: in every reachable state of a live session, whatever the screen    *)
(* (main menu, feature screen, wizard in any step and mode), the handler   *)
(* of the active screen answers ctrl+c with the quit command and leaves    *)
(* the filesystem alone; the step that processes ctrl+c ends the session   *)
(* and writes nothing.                                                     *)
C13_QuitEndsSession ==
    /\ [](live =>
            CASE screen = "menu" -> menuUpdate(mcursor, CtrlC).cmd = "quit"
              [] screen \in FeatureScreens ->
                   featureUpdate(screen, mcursor, CtrlC).cmd = "quit"
              [] screen = "generator" ->
                   \A io \in IoOutcomes :
                      /\ Update(gm, fs, CtrlC, io).cmd = "quit"
                      /\ Update(gm, fs, CtrlC, io).fs = fs)
    /\ [][ (MenuPressed(CtrlC) \/ FeaturePressed(CtrlC) \/ Pressed(CtrlC))
           => (~ live' /\ fs' = fs) ]_vars

\* ctrl+c has ended the session in DescriptionInput with text in the buffer
\* and a tool generated before
C13_Witness ==
    /\ ~ live
    /\ InStep(2) /\ gm.inputMode /\ gm.quitting
    /\ gm.inputText # <<>>
    /\ DOMAIN fs.files # {}

-----------------------------------------------------------------------------
(* C14: an event handled by the wizard changes the step only by adding one *)
(* (a confirm), by subtracting one while emptying the input buffer (a      *)
(* cancel), or by resetting it to ToolTypeSelect (a retry).                *)
C14_StepBackOnlyByCancelOrRetry ==
    [][ (screen = "generator" /\ gm'.step # gm.step)
        => \/ (gm'.step = gm.step + 1 /\ (Pressed(Enter) \/ Pressed(SpaceKey)))
           \/ (gm'.step = gm.step - 1 /\ gm'.inputText = <<>> /\ Pressed(Esc))
           \/ (gm'.step = 0 /\ Pressed(RetryKey)) ]_vars

(* C14 as amended: the step stays within 0..3 and an event changes it only *)
(* by adding one (a confirm), by subtracting one while emptying the input  *)
(* buffer (a cancel, in text entry), or by resetting it to ToolTypeSelect: *)
(* the retry key in step 3, and the back key outside text entry in every   *)
(* step but ToolTypeSelect, so that back in Completion and in Error moves  *)
(* the step back by three.                                                 *)
C14_StepBackByCancelRetryOrBack ==
    [][ (screen = "generator" /\ gm'.step # gm.step)
        => /\ gm'.step \in 0..3
           /\ \/ (gm'.step = gm.step + 1 /\ (Pressed(Enter) \/ Pressed(SpaceKey)))
              \/ (/\ gm.inputMode
                  /\ gm'.step = gm.step - 1 /\ gm'.inputText = <<>>
                  /\ Pressed(Esc))
              \/ (gm.step = 3 /\ gm'.step = 0 /\ Pressed(RetryKey))
              \/ (/\ ~ gm.inputMode /\ gm.step > 0
                  /\ gm'.step = 0 /\ gm'.inputText = <<>>
                  /\ Pressed(Esc)) ]_vars

\* DescriptionInput has been cancelled and the back key pressed after it:
\* ToolTypeSelect holds a collected name and no description
C14_Witness ==
    /\ InStep(0)
    /\ gm.toolName # <<>>
    /\ gm.toolDesc = <<>>

-----------------------------------------------------------------------------
(* C15: the cursor of the main menu and the cursor of the wizard stay      *)
(* within [0, number of choices - 1]; "up" at index 0 and "down" at the    *)
(* last index leave the cursor where it is, elsewhere they move it by one; *)
(* on a menu of at least four choices, three "down" and one "up" from the  *)
(* initial cursor end at index 2.                                          *)
DownDownDownUp(n) == cursorUp(cursorDown(cursorDown(cursorDown(0, n), n), n))

C15_CursorStaysInRange ==
    /\ [](/\ mcursor \in 0..(Len(MenuChoices) - 1)
          /\ gm.cursor \in 0..(Len(Choices) - 1)
          /\ Len(MenuChoices) >= 4 => DownDownDownUp(Len(MenuChoices)) = 2
          /\ Len(Choices) >= 4 => DownDownDownUp(Len(Choices)) = 2)
    /\ [][ /\ MenuPressed(UpKey)
               => mcursor' = IF mcursor = 0 THEN 0 ELSE mcursor - 1
           /\ MenuPressed(DownKey)
               => mcursor' = IF mcursor = Len(MenuChoices) - 1
                             THEN mcursor ELSE mcursor + 1
           /\ (~ gm.inputMode /\ Pressed(UpKey))
               => gm'.cursor = IF gm.cursor = 0 THEN 0 ELSE gm.cursor - 1
           /\ (~ gm.inputMode /\ Pressed(DownKey))
               => gm'.cursor = IF gm.cursor = Len(Choices) - 1
                               THEN gm.cursor ELSE gm.cursor + 1 ]_vars

\* both cursors have been moved to their last index
C15_Witness ==
    /\ live /\ InStep(0)
    /\ gm.cursor = Len(Choices) - 1

-----------------------------------------------------------------------------
(* C16: while the session is live the screen stack is not empty and its    *)
(* bottom is the main menu; entering a feature screen or the wizard from   *)
(* the main menu pushes exactly one screen, the back event of a feature    *)
(* screen and of the wizard's ToolTypeSelect pops it in a session that     *)
(* stays live, and the back event on the main menu alone changes nothing.  *)
\* the screens a stack would hold: the program keeps its current model only
ScreenStack == IF screen = "menu" THEN <<"menu">> ELSE <<"menu", screen>>

C16_StackBottomIsMainMenu ==
    /\ [](live => (Len(ScreenStack) >= 1 /\ ScreenStack[1] = "menu"))
    /\ [][ /\ (mcursor < Len(MenuChoices) - 1 /\ MenuPressed(Enter))
               => (live' /\ Len(ScreenStack') = 2)
           /\ (\/ FeaturePressed(Esc)
               \/ (InStep(0) /\ ~ gm.inputMode /\ Pressed(Esc)))
               => (live' /\ ScreenStack' = <<"menu">>)
           /\ MenuPressed(Esc) => UNCHANGED <<live, screen, mcursor>> ]_vars

-----------------------------------------------------------------------------
(* C17: the wizard created on entry from the main menu is in step 0 with   *)
(* cursor 0, text entry off, no error and no success message, and offers   *)
(* exactly the choices "CLI Tool", "TUI Tool", "Web Tool" and "Back to     *)
(* Main Menu", in that order.                                              *)
C17_FreshWizardHasFourChoices ==
    [][ (MenuPressed(Enter) /\ screen' = "generator")
        => (/\ gm' = NewGeneratorModel
            /\ gm'.step = 0 /\ gm'.cursor = 0
            /\ ~ gm'.inputMode
            /\ gm'.error = "" /\ gm'.success = <<>>
            /\ Choices = <<"CLI Tool", "TUI Tool", "Web Tool", "Back to Main Menu">>) ]_vars

-----------------------------------------------------------------------------
(* C18: in ToolTypeSelect the confirm of the first, second and third       *)
(* choice ("CLI Tool", "TUI Tool", "Web Tool") enters NameInput with the   *)
(* tool type whose name is "CLI", "TUI" and "Web"; moving the cursor       *)
(* changes neither the step nor the tool type.                             *)
C18_ConfirmCarriesChosenType ==
    [][ /\ \A i \in 1..3 :
             (/\ InStep(0) /\ ~ gm.inputMode
              /\ gm.cursor = i - 1
              /\ Pressed(Enter))
             => (/\ Choices[i] = ClaimedTypes[i] \o " Tool"
                 /\ gm'.step = 1 /\ gm'.inputMode
                 /\ ToolTypeString(gm'.toolType) = ClaimedTypes[i])
        /\ (InStep(0) /\ ~ gm.inputMode /\ (Pressed(UpKey) \/ Pressed(DownKey)))
           => (gm'.step = gm.step /\ gm'.toolType = gm.toolType) ]_vars

-----------------------------------------------------------------------------
(* C19: in every state of NameInput and DescriptionInput the handler      *)
(* answers every character event, of one byte, of several bytes, or        *)
(* carrying several characters, by appending its text to the input buffer, *)
(* changing nothing else, returning no command and writing no file.        *)
C19_EveryCharacterAppended ==
    (live /\ screen = "generator" /\ gm.inputMode /\ gm.step \in {1, 2})
    => \A k \in { kk \in Keys : kk.name = "runes" } :
          Update(gm, fs, k, IoOk) =
             [m |-> [gm EXCEPT !.inputText = @ \o k.text], cmd |-> "nil", fs |-> fs]

-----------------------------------------------------------------------------
(* C20: in a text-entry step, for every buffer the wizard can hold and     *)
(* every single character c, of one byte or of two, typing c and then      *)
(* removing a character gives the buffer back; removing a character from   *)
(* the empty buffer leaves it empty.                                       *)
\* the buffer after the keys ks, handled in order by handleInputMode
RECURSIVE BufferAfter(_, _)
BufferAfter(m, ks) ==
    IF ks = <<>> THEN m.inputText
    ELSE BufferAfter(handleInputMode(m, fs, Head(ks), IoOk).m, Tail(ks))

C20_TypeThenRemoveRestores ==
    (live /\ screen = "generator" /\ gm.inputMode /\ gm.step \in {1, 2})
    => /\ \A c \in { <<32>>, <<65>>, <<114>>, <<195, 169>> } :
            BufferAfter(gm, <<Typed(c), Backspace>>) = gm.inputText
       /\ gm.inputText = <<>> => BufferAfter(gm, <<Backspace>>) = <<>>

-----------------------------------------------------------------------------
(* C21: the confirm of NameInput or DescriptionInput with a buffer that is *)
(* empty once trimmed keeps the step, sets an error message, changes       *)
(* neither the collected name nor the collected description, returns no    *)
(* command and leaves the filesystem as it is, whatever the environment    *)
(* would have answered to a generation.                                    *)
C21_EmptyConfirmStaysWithError ==
    (live /\ screen = "generator" /\ gm.step \in {1, 2}
     /\ TrimSpace(gm.inputText) = <<>>)
    => \A io \in IoOutcomes :
          LET r == Update(gm, fs, Enter, io) IN
          /\ r.cmd = "nil"
          /\ r.fs = fs
          /\ r.m.step = gm.step
          /\ r.m.error # ""
          /\ r.m.toolName = gm.toolName
          /\ r.m.toolDesc = gm.toolDesc

-----------------------------------------------------------------------------
(* C22: whenever the wizard is in the Error state (step 3 with an error    *)
(* message), the rendered screen shows the message and the line of the     *)
(* retry, back and quit options.                                           *)
C22_ErrorScreenShowsOptions ==
    (live /\ InStep(3) /\ gm.error # "")
    => (/\ Shows(gm, <<"error ", gm.error>>)
        /\ Shows(gm, RetryBackQuitHelp))

-----------------------------------------------------------------------------
(* C23: whenever the wizard is in Completion, the files listed on the      *)
(* screen are exactly the paths the generation wrote: every listed path    *)
(* is a file the generation left in the filesystem, and the main file it   *)
(* wrote is listed.                                                        *)
\* the paths of the "Files created:" items
ListedPaths(m) ==
    { <<"cmd", ToLower(ToolTypeString(m.toolType)), m.toolName, "main.go">>,
      <<"README.md">>,
      <<"Makefile">> }

C23_ListedFilesWereWritten ==
    (InStep(3) /\ gm.success # <<>>)
    => (/\ \A i \in 1..Len(FilesCreatedLines(gm)) : Shows(gm, FilesCreatedLines(gm)[i])
        /\ \A p \in ListedPaths(gm) : p \in DOMAIN fs.files
        /\ \A p \in DOMAIN fs.files :
              (Len(p) = 4 /\ SubSeq(p, 1, 3) = ClaimedDir(gm)) => p \in ListedPaths(gm))

-----------------------------------------------------------------------------
(* C24: a step changes the filesystem only if it is the confirm of         *)
(* DescriptionInput, in text entry, with a buffer that is not empty once   *)
(* trimmed; and it then adds or rewrites only the destination directory    *)
(* cmd/<lowercased type>/<name>, the directories above it and files below  *)
(* it.                                                                     *)
\* p is the directory d, a directory above it or a path below it
OnPathOf(p, d) ==
    \/ (Len(p) <= Len(d) /\ SubSeq(d, 1, Len(p)) = p)
    \/ (Len(p) > Len(d) /\ SubSeq(p, 1, Len(d)) = d)

\* the paths on which the filesystems f and g differ
ChangedPaths(f, g) ==
    ((f.dirs \ g.dirs) \cup (g.dirs \ f.dirs))
    \cup { p \in (DOMAIN f.files) \cup (DOMAIN g.files) :
             \/ p \notin DOMAIN f.files
             \/ p \notin DOMAIN g.files
             \/ f.files[p] # g.files[p] }

C24_OnlyGenerationWrites ==
    [][ (fs' # fs)
        => (/\ InStep(2) /\ gm.inputMode
            /\ TrimSpace(gm.inputText) # <<>>
            /\ Pressed(Enter)
            /\ \A p \in ChangedPaths(fs, fs') : OnPathOf(p, ClaimedDir(gm))) ]_vars

\* a TUI tool has been generated: the filesystem holds its main file under
\* cmd/tui
C24_Witness ==
    /\ InStep(3)
    /\ gm.toolType = TUI
    /\ <<"cmd", "tui", gm.toolName, "main.go">> \in DOMAIN fs.files

-----------------------------------------------------------------------------
(* C25: the confirm of DescriptionInput runs the generation once, on the   *)
(* tool type and name collected in the pass and the description just       *)
(* typed, and moves to step 3; in step 3 no key at all runs a generation:  *)
(* every key leaves the filesystem alone whatever the environment would    *)
(* answer, and leaves the wizard in step 3 or in ToolTypeSelect, so that   *)
(* another generation needs another pass.                                  *)
C25_GenerationOncePerPass ==
    /\ (live /\ InStep(2) /\ gm.inputMode /\ TrimSpace(gm.inputText) # <<>>)
       => \A io \in IoOutcomes :
             LET r == Update(gm, fs, Enter, io)
                 g == generateTool([gm EXCEPT !.toolDesc = TrimSpace(gm.inputText)],
                                   fs, io)
             IN  /\ r.fs = g.fs
                 /\ r.m.step = 3
                 /\ (r.m.success # <<>>) <=> (g.err = "")
                 /\ (r.m.error # "") <=> (g.err # "")
    /\ (live /\ InStep(3))
       => \A k \in Keys \cup {Typed(<<113>>), Typed(<<98>>)} : \A io \in IoOutcomes :
             LET r == Update(gm, fs, k, io) IN
             /\ r.fs = fs
             /\ r.m.step \in {0, 3}
             /\ r.m.success \in {<<>>, gm.success}
             /\ r.m.error \in {"", gm.error}

\* keys have been handled in Completion: the cursor has been moved there to
\* the last choice, and the tool generated is in the filesystem
C25_Witness ==
    /\ live /\ InStep(3)
    /\ gm.success # <<>>
    /\ gm.cursor = Len(Choices) - 1
    /\ MainFile(ToolDir(gm)) \in DOMAIN fs.files

-----------------------------------------------------------------------------
(* C26: in Completion, where the screen offers 'q' to quit, the key 'q'    *)
(* ends the session.                                                       *)
QuitKey == Typed(<<113>>)

C26_QuitKeyEndsCompletion ==
    (live /\ InStep(3) /\ gm.success # <<>> /\ Shows(gm, RetryBackQuitHelp))
    => \A io \in IoOutcomes : Update(gm, fs, QuitKey, io).cmd = "quit"

-----------------------------------------------------------------------------
(* C27: in every reachable state of the wizard, text entry is on exactly   *)
(* when the step is NameInput or DescriptionInput.                         *)
C27_TextEntryIffInputStep ==
    (live /\ screen = "generator") => (gm.inputMode <=> gm.step \in {1, 2})

-----------------------------------------------------------------------------
(* C28: every step of the wizard that enters NameInput from another step   *)
(* (from ToolTypeSelect on first entry, after a cancel, a back or a retry, *)
(* or from DescriptionInput) arrives with an empty input buffer.           *)
C28_NameInputStartsEmpty ==
    [][ (screen = "generator" /\ gm.step # 1 /\ gm'.step = 1)
        => gm'.inputText = <<>> ]_vars

-----------------------------------------------------------------------------
(* C29: a generation attempt that fails leaves the filesystem exactly as   *)
(* it was: the confirm of DescriptionInput that ends with an error message *)
(* has created no directory and created or changed no file.                *)
C29_FailedGenerationWritesNothing ==
    [][ (/\ InStep(2) /\ gm.inputMode
         /\ gm'.step = 3 /\ gm'.error # ""
         /\ Pressed(Enter))
        => fs' = fs ]_vars

-----------------------------------------------------------------------------
(* C30: the cancel of a text-entry step leaves no error message, and       *)
(* ToolTypeSelect never holds one.                                         *)
C30_ErrorClearedOnCancel ==
    /\ [](InStep(0) => gm.error = "")
    /\ [][ (/\ screen = "generator" /\ gm.inputMode
            /\ gm.step \in {1, 2}
            /\ Pressed(Esc))
           => gm'.error = "" ]_vars

====
